---- MODULE Spec2Model ----
(***************************************************************************)
(* Ownership-scoped CRUD and inquiry routing of real-estate-armenia.       *)
(*                                                                         *)
(* The record store (tables properties and inquiries of the README schema, *)
(* with their foreign keys, cascades and row-level policies) is the state. *)
(* The two API routes (pages/api/properties.ts, pages/api/inquiries.ts)    *)
(* use the service-role client, which bypasses the row-level policies; the *)
(* dashboard and the listing detail page use the browser client, whose     *)
(* writes are subject to them.                                             *)
(*                                                                         *)
(* A handler awaits each store call, so the store calls of concurrent      *)
(* requests interleave.  A handler that makes two store calls (an          *)
(* ownership check, then a write or a query) is two actions; between them  *)
(* the request sits in inFlight.  Token resolution and the checks made     *)
(* before the first store call read nothing of the store and are part of   *)
(* the first action.  Store calls of the API routes fail only for reasons  *)
(* the schema and the query give (no row for .single(), a foreign key, a   *)
(* policy).  The specifications of the two components follow a call of     *)
(* the browser client that fails on its way as well, since the components  *)
(* have a branch for it.                                                   *)
(*                                                                         *)
(* resp is the response of the step just taken.  The next step of any      *)
(* request waits until SendResponse has cleared it, so that every response *)
(* is seen in the state its step produced; no handler reads resp, so this  *)
(* removes no interleaving of store calls.                                 *)
(*                                                                         *)
(* Spec is the whole system with few rows.  SpecCatalog is the property    *)
(* catalog alone with many request bodies; SpecList is the property list   *)
(* alone with more rows than the list's limit.  SpecRace is the writes of  *)
(* the API with the store calls of two requests interleaved.               *)
(* SpecDashboard is one Dashboard component with its state, SpecListing    *)
(* one PropertyDetails component; SpecListingFair adds that the calls the  *)
(* component awaits answer.                                                *)
(***************************************************************************)
EXTENDS Integers, Sequences, FiniteSets, TLC

VARIABLES
    properties,      \* table properties: a set of rows
    inquiries,       \* table inquiries: a set of rows
    nextPropertyId,  \* the next fresh properties.id (uuid_generate_v4); also the
                     \* table's clock: created_at is the insert's rank in its table
    nextInquiryId,   \* the next fresh inquiries.id
    inFlight,        \* API requests between their first and second store call
    resp,            \* the HTTP response a handler has returned and the runtime is
                     \* sending, or NoResp
    dashboard,       \* the state of one Dashboard component and its store calls
    listing          \* the state of one PropertyDetails component and its calls

vars == <<properties, inquiries, nextPropertyId, nextInquiryId, inFlight, resp,
          dashboard, listing>>

\* The state of the pages.
pages == <<dashboard, listing>>

---------------------------------------------------------------------------
(* Bounds of the model *)

MaxProperties == 2
MaxInquiries == 2
MaxInFlight == 1

\* The race specification: the most requests between their two store calls.
MaxRaceInFlight == 2

\* The list specification: the most properties stored, and how many of the first
\* of them either user may have created (the later ones are all U1's).
MaxListRows == 22
MaxMixedRows == 2

---------------------------------------------------------------------------
(* Values *)

Users == {"U1", "U2"}

null == "null"

undefined == "undefined"

\* An Authorization header: absent, a bearer token the identity provider
\* rejects, or the bearer token of a user.
Tokens == Users \cup {"absent", "rejected"}

\* A query parameter that is absent (falsy in `if (!id)`).
NoId == 0

PropertyIds == 1..MaxProperties

InquiryIds == 1..MaxInquiries

\* A numeric column or JSON number that may be null: <<>> is null, <<n>> is n.
Num(n) == <<n>>

NullNum == <<>>

\* A JSON request body: `has` is the set of keys present.
Body(has, title, city, price, image_url, owner, property, message) ==
    [has |-> has, title |-> title, city |-> city, price |-> price,
     image_url |-> image_url, owner |-> owner, property |-> property,
     message |-> message]

EmptyBody == Body({}, "", "", NullNum, "", null, NoId, "")

\* Bodies sent to /api/properties: every field and an owner; a partial body.
PropertyBodies ==
    { Body({"title", "city", "price", "image_url", "owner"},
           "Villa", "Yerevan", Num(100000), "img", "U2", NoId, ""),
      Body({"title", "owner"}, "House", "", NullNum, "", "U1", NoId, "") }

\* Bodies sent to /api/properties that leave a required field out or carry a
\* price of zero, a negative price or a JSON null price.
CatalogBodies ==
    PropertyBodies \cup
    { Body({"title", "city", "price"}, "Villa", "Yerevan", Num(0), "", null, NoId, ""),
      Body({"title", "city"}, "House", "Gyumri", NullNum, "", null, NoId, ""),
      Body({"city", "price"}, "", "Gyumri", Num(-1), "", null, NoId, ""),
      Body({"title", "price"}, "House", "", NullNum, "", null, NoId, ""),
      Body({"title", "city", "price"}, "House", "Gyumri", Num(-1), "", null, NoId, ""),
      Body({"title", "city", "price"}, "", "Yerevan", Num(100000), "", null, NoId, "") }

\* Bodies sent to /api/inquiries.
InquiryBodies ==
    { Body({"property", "message"}, "", "", NullNum, "", null, id, m) :
          id \in PropertyIds, m \in {"interested", ""} }
    \cup { Body({"message"}, "", "", NullNum, "", null, NoId, "interested") }

\* req.body.<key> of a string-valued key: undefined when the key is absent.
Field(body, key) == IF key \in body.has THEN body[key] ELSE undefined

\* JavaScript's !x for a string.
Falsy(x) == x = undefined \/ x = "" \/ x = null

---------------------------------------------------------------------------
(* The identity provider *)

\* supabase.auth.getUser(token): the user's id, or userId stays null.
resolveUser(token) == IF token \in Users THEN token ELSE null

---------------------------------------------------------------------------
(* The record store: the README schema *)

\* A row of properties.  createdBy is a history column the schema does not
\* have and no query reads: the user whose request inserted the row.
PropertyRow(id, owner, title, city, price, image_url, created_at, createdBy) ==
    [id |-> id, owner |-> owner, title |-> title, city |-> city,
     price |-> price, image_url |-> image_url, created_at |-> created_at,
     createdBy |-> createdBy]

InquiryRow(id, property, sender, message, created_at) ==
    [id |-> id, property |-> property, sender |-> sender,
     message |-> message, created_at |-> created_at]

\* .single(): the one row, or an error when the query gives no row.
Single(rows) == [error |-> Cardinality(rows) # 1, rows |-> rows]

TheRow(result) == CHOOSE r \in result.rows : TRUE

\* inquiries.property references properties(id): an insert of a row whose
\* property is not stored is rejected.
ForeignKeyOk(props, row) == \E p \in props : p.id = row.property

\* Mutant of CascadeInquiries: inquiries.property declared without on delete cascade
\* being applied, so the inquiries of a deleted property stay.
CascadeInquiries_None(inqs, ids) == inqs

\* delete from properties where id = ...: on delete cascade removes the
\* inquiries that reference the row.
CascadeInquiries(inqs, ids) == {i \in inqs : i.property \notin ids}

\* select owner from properties where id = property (used by the policy).
OwnerOf(props, id) == IF \E p \in props : p.id = id
                        THEN (CHOOSE p \in props : p.id = id).owner
                        ELSE null

\* policy "Owners manage properties": for all using (owner = auth.uid()).
OwnersManageProperties(uid, row) == uid # null /\ row.owner = uid

\* policy "Relevant users": for all using (sender = auth.uid() or
\* (select owner from properties where id = property) = auth.uid()).
RelevantUsers(uid, props, row) ==
    uid # null /\ (row.sender = uid \/ OwnerOf(props, row.property) = uid)

RECURSIVE OrderByCreatedAtDesc(_)
\* .order('created_at', { ascending: false })
OrderByCreatedAtDesc(rows) ==
    IF rows = {} THEN <<>>
    ELSE LET newest == CHOOSE r \in rows : \A q \in rows : q.created_at <= r.created_at
         IN  <<newest>> \o OrderByCreatedAtDesc(rows \ {newest})

---------------------------------------------------------------------------
(* What one step of a handler does: its response, or that it goes on to    *)
(* its second store call; the tables after it; the store calls made so far *)

Outcome(status, error, rows, calls, cont, props, inqs, propertyIds) ==
    [status |-> status, error |-> error, rows |-> rows, calls |-> calls,
     cont |-> cont, props |-> props, inqs |-> inqs, propertyIds |-> propertyIds]

\* return res.status(status).json(...), the tables untouched.
Reply(status, error, rows, calls) ==
    Outcome(status, error, rows, calls, FALSE, properties, inquiries, {})

\* The check passed: the handler goes on to its next store call.
GoOn(calls, propertyIds) ==
    Outcome(0, "", <<>>, calls, TRUE, properties, inquiries, propertyIds)

\* catch (error) { return res.status(500)... }
StoreError(calls) == Reply(500, "StoreError", <<>>, calls)

\* An API request between its first and its second store call.
Request(op, userId, id, body, propertyIds) ==
    [op |-> op, userId |-> userId, id |-> id, body |-> body, propertyIds |-> propertyIds]

NoResp ==
    [route |-> "", method |-> "", userId |-> null, id |-> NoId, queryUserId |-> undefined,
     body |-> EmptyBody, status |-> 0, error |-> "", rows |-> <<>>, calls |-> 0]

Response(route, method, userId, id, queryUserId, body, out) ==
    [route |-> route, method |-> method, userId |-> userId, id |-> id,
     queryUserId |-> queryUserId, body |-> body, status |-> out.status,
     error |-> out.error, rows |-> out.rows, calls |-> out.calls]

---------------------------------------------------------------------------
(* pages/api/properties.ts *)

\* .limit(20)
ListLimit == 20

\* .limit(n): the first n rows of the ordered result.
Limit(rows, n) == SubSeq(rows, 1, IF Len(rows) < n THEN Len(rows) ELSE n)

\* Mutant of PropertiesGet: the unfiltered list is not limited.
PropertiesGet_NoLimit(id, ownerId) ==
    IF id # NoId
    THEN LET data == Single({p \in properties : p.id = id})
         IN  IF data.error THEN StoreError(1)
             ELSE Reply(200, "", <<TheRow(data)>>, 1)
    ELSE IF ~Falsy(ownerId)
    THEN Reply(200, "", OrderByCreatedAtDesc({p \in properties : p.owner = ownerId}), 1)
    ELSE Reply(200, "", OrderByCreatedAtDesc(properties), 1)

\* case 'GET': a single property by id, an owner's properties, or the newest
\* ListLimit properties.  The handler does not look at userId.
PropertiesGet(id, ownerId) ==
    IF id # NoId
    THEN LET data == Single({p \in properties : p.id = id})
         IN  IF data.error THEN StoreError(1)
             ELSE Reply(200, "", <<TheRow(data)>>, 1)
    ELSE IF ~Falsy(ownerId)
    THEN Reply(200, "", OrderByCreatedAtDesc({p \in properties : p.owner = ownerId}), 1)
    ELSE Reply(200, "", Limit(OrderByCreatedAtDesc(properties), ListLimit), 1)

\* Mutant of PropertiesPost: the price is tested as the other fields are (!price).
PropertiesPost_FalsyPrice(userId, body) ==
    IF userId = null THEN Reply(401, "Unauthorized", <<>>, 0)
    ELSE IF Falsy(Field(body, "title")) \/ Falsy(Field(body, "city"))
            \/ "price" \notin body.has \/ body.price \in {NullNum, Num(0)}
    THEN Reply(400, "Missing required fields", <<>>, 0)
    ELSE LET row == PropertyRow(nextPropertyId, userId, body.title, body.city, body.price,
                                IF Falsy(Field(body, "image_url")) THEN null ELSE body.image_url,
                                nextPropertyId, userId)
         IN  Outcome(201, "", <<row>>, 1, FALSE, properties \cup {row}, inquiries, {})

\* Mutant of PropertiesPost: the body is validated before the token is looked at.
PropertiesPost_ValidateFirst(userId, body) ==
    IF Falsy(Field(body, "title")) \/ Falsy(Field(body, "city")) \/ "price" \notin body.has
    THEN Reply(400, "Missing required fields", <<>>, 0)
    ELSE IF userId = null THEN Reply(401, "Unauthorized", <<>>, 0)
    ELSE LET row == PropertyRow(nextPropertyId, userId, body.title, body.city, body.price,
                                IF Falsy(Field(body, "image_url")) THEN null ELSE body.image_url,
                                nextPropertyId, userId)
         IN  Outcome(201, "", <<row>>, 1, FALSE, properties \cup {row}, inquiries, {})

\* Mutant of PropertiesPost: the row is inserted as the body gives it ({...req.body,
\* owner: body.owner ?? userId}).
PropertiesPost_BodyOwner(userId, body) ==
    IF userId = null THEN Reply(401, "Unauthorized", <<>>, 0)
    ELSE IF Falsy(Field(body, "title")) \/ Falsy(Field(body, "city")) \/ "price" \notin body.has
    THEN Reply(400, "Missing required fields", <<>>, 0)
    ELSE LET row == PropertyRow(nextPropertyId,
                                IF "owner" \in body.has THEN body.owner ELSE userId,
                                body.title, body.city, body.price,
                                IF Falsy(Field(body, "image_url")) THEN null ELSE body.image_url,
                                nextPropertyId, userId)
         IN  Outcome(201, "", <<row>>, 1, FALSE, properties \cup {row}, inquiries, {})

\* case 'POST'
PropertiesPost(userId, body) ==
    IF userId = null THEN Reply(401, "Unauthorized", <<>>, 0)
    ELSE IF Falsy(Field(body, "title")) \/ Falsy(Field(body, "city")) \/ "price" \notin body.has
    THEN Reply(400, "Missing required fields", <<>>, 0)
    ELSE LET row == PropertyRow(nextPropertyId, userId, body.title, body.city, body.price,
                                IF Falsy(Field(body, "image_url")) THEN null ELSE body.image_url,
                                nextPropertyId, userId)
         IN  Outcome(201, "", <<row>>, 1, FALSE, properties \cup {row}, inquiries, {})

\* Mutant of PropertiesPutCheck: the owner comparison is left out.
PropertiesPutCheck_NoOwnerCheck(userId, id) ==
    IF id = NoId THEN Reply(400, "Missing property ID", <<>>, 0)
    ELSE IF userId = null THEN Reply(401, "Unauthorized", <<>>, 0)
    ELSE LET propertyData == Single({p \in properties : p.id = id})
         IN  IF propertyData.error THEN StoreError(1)
             ELSE GoOn(1, {})

\* Mutant of PropertiesPutCheck: a lookup that finds no row is answered as a
\* property of another owner.
PropertiesPutCheck_MissingForbidden(userId, id) ==
    IF id = NoId THEN Reply(400, "Missing property ID", <<>>, 0)
    ELSE IF userId = null THEN Reply(401, "Unauthorized", <<>>, 0)
    ELSE LET propertyData == Single({p \in properties : p.id = id})
         IN  IF propertyData.error
             THEN Reply(403, "Forbidden - You do not own this property", <<>>, 1)
             ELSE IF TheRow(propertyData).owner # userId
             THEN Reply(403, "Forbidden - You do not own this property", <<>>, 1)
             ELSE GoOn(1, {})

\* case 'PUT', to the ownership check
PropertiesPutCheck(userId, id) ==
    IF id = NoId THEN Reply(400, "Missing property ID", <<>>, 0)
    ELSE IF userId = null THEN Reply(401, "Unauthorized", <<>>, 0)
    ELSE LET propertyData == Single({p \in properties : p.id = id})
         IN  IF propertyData.error THEN StoreError(1)
             ELSE IF TheRow(propertyData).owner # userId
             THEN Reply(403, "Forbidden - You do not own this property", <<>>, 1)
             ELSE GoOn(1, {})

\* Mutant of UpdateColumns: a key the body leaves out is written as null.
UpdateColumns_AllColumns(row, body) ==
    [row EXCEPT !.title = IF "title" \in body.has THEN body.title ELSE null,
                !.city = IF "city" \in body.has THEN body.city ELSE null,
                !.price = IF "price" \in body.has THEN body.price ELSE NullNum,
                !.image_url = IF "image_url" \in body.has THEN body.image_url ELSE null]

\* Mutant of UpdateColumns: .update(req.body), the owner key included.
UpdateColumns_WithOwner(row, body) ==
    [row EXCEPT !.title = IF "title" \in body.has THEN body.title ELSE @,
                !.city = IF "city" \in body.has THEN body.city ELSE @,
                !.price = IF "price" \in body.has THEN body.price ELSE @,
                !.image_url = IF "image_url" \in body.has THEN body.image_url ELSE @,
                !.owner = IF "owner" \in body.has THEN body.owner ELSE @]

\* .update({ title, city, price, image_url }): JSON drops the undefined keys.
UpdateColumns(row, body) ==
    [row EXCEPT !.title = IF "title" \in body.has THEN body.title ELSE @,
                !.city = IF "city" \in body.has THEN body.city ELSE @,
                !.price = IF "price" \in body.has THEN body.price ELSE @,
                !.image_url = IF "image_url" \in body.has THEN body.image_url ELSE @]

\* case 'PUT', the update: .update(...).eq('id', id).select()
PropertiesPutUpdate(userId, id, body) ==
    LET hit == {p \in properties : p.id = id}
        updated == {UpdateColumns(p, body) : p \in hit}
    IN  Outcome(200, "", OrderByCreatedAtDesc(updated), 2, FALSE,
                (properties \ hit) \cup updated, inquiries, {})

\* Mutant of PropertiesDeleteCheck: the row is deleted before the owner is compared.
PropertiesDeleteCheck_DeleteFirst(userId, id) ==
    IF id = NoId THEN Reply(400, "Missing property ID", <<>>, 0)
    ELSE IF userId = null THEN Reply(401, "Unauthorized", <<>>, 0)
    ELSE LET propertyData == Single({p \in properties : p.id = id})
         IN  IF propertyData.error THEN StoreError(1)
             ELSE IF TheRow(propertyData).owner # userId
             THEN Outcome(403, "Forbidden - You do not own this property", <<>>, 2, FALSE,
                          {p \in properties : p.id # id},
                          CascadeInquiries(inquiries, {id}), {})
             ELSE GoOn(1, {})

\* case 'DELETE', to the ownership check
PropertiesDeleteCheck(userId, id) ==
    IF id = NoId THEN Reply(400, "Missing property ID", <<>>, 0)
    ELSE IF userId = null THEN Reply(401, "Unauthorized", <<>>, 0)
    ELSE LET propertyData == Single({p \in properties : p.id = id})
         IN  IF propertyData.error THEN StoreError(1)
             ELSE IF TheRow(propertyData).owner # userId
             THEN Reply(403, "Forbidden - You do not own this property", <<>>, 1)
             ELSE GoOn(1, {})

\* case 'DELETE', the delete: .delete().eq('id', id)
PropertiesDelete(userId, id) ==
    Outcome(200, "", <<>>, 2, FALSE,
            {p \in properties : p.id # id}, CascadeInquiries(inquiries, {id}), {})

\* default: res.setHeader('Allow', [...]); 405
PropertiesDefault(method) == Reply(405, "Method Not Allowed", <<>>, 0)

---------------------------------------------------------------------------
(* pages/api/inquiries.ts *)

\* Mutant of InquiriesGetCheck: the userId parameter is looked at before propertyId.
InquiriesGetCheck_UserIdFirst(userId, propertyId, queryUserId) ==
    IF userId = null THEN Reply(401, "Unauthorized", <<>>, 0)
    ELSE IF ~Falsy(queryUserId)
    THEN IF queryUserId # userId
         THEN Reply(403, "Forbidden - You can only view your own inquiries", <<>>, 0)
         ELSE Reply(200, "",
                    OrderByCreatedAtDesc({i \in inquiries : i.sender = queryUserId}), 1)
    ELSE IF propertyId # NoId
    THEN LET propertyData == Single({p \in properties : p.id = propertyId})
         IN  IF propertyData.error THEN StoreError(1)
             ELSE IF TheRow(propertyData).owner # userId
             THEN Reply(403, "Forbidden - You do not own this property", <<>>, 1)
             ELSE GoOn(1, {})
    ELSE LET propertiesOwned == {p \in properties : p.owner = userId}
             propertyIds == {p.id : p \in propertiesOwned}
         IN  GoOn(1, propertyIds)

\* Mutant of InquiriesGetCheck: the propertyId branch leaves the owner comparison out.
InquiriesGetCheck_NoOwnerCheck(userId, propertyId, queryUserId) ==
    IF userId = null THEN Reply(401, "Unauthorized", <<>>, 0)
    ELSE IF propertyId # NoId
    THEN LET propertyData == Single({p \in properties : p.id = propertyId})
         IN  IF propertyData.error THEN StoreError(1)
             ELSE GoOn(1, {})
    ELSE IF ~Falsy(queryUserId)
    THEN IF queryUserId # userId
         THEN Reply(403, "Forbidden - You can only view your own inquiries", <<>>, 0)
         ELSE Reply(200, "",
                    OrderByCreatedAtDesc({i \in inquiries : i.sender = queryUserId}), 1)
    ELSE LET propertiesOwned == {p \in properties : p.owner = userId}
             propertyIds == {p.id : p \in propertiesOwned}
         IN  GoOn(1, propertyIds)

\* Mutant of InquiriesGetCheck: the userId branch serves any user's inquiries.
InquiriesGetCheck_AnyUser(userId, propertyId, queryUserId) ==
    IF userId = null THEN Reply(401, "Unauthorized", <<>>, 0)
    ELSE IF propertyId # NoId
    THEN LET propertyData == Single({p \in properties : p.id = propertyId})
         IN  IF propertyData.error THEN StoreError(1)
             ELSE IF TheRow(propertyData).owner # userId
             THEN Reply(403, "Forbidden - You do not own this property", <<>>, 1)
             ELSE GoOn(1, {})
    ELSE IF ~Falsy(queryUserId)
    THEN Reply(200, "",
               OrderByCreatedAtDesc({i \in inquiries : i.sender = queryUserId}), 1)
    ELSE LET propertiesOwned == {p \in properties : p.owner = userId}
             propertyIds == {p.id : p \in propertiesOwned}
         IN  GoOn(1, propertyIds)

\* case 'GET', to the end of its first store call
InquiriesGetCheck(userId, propertyId, queryUserId) ==
    IF userId = null THEN Reply(401, "Unauthorized", <<>>, 0)
    ELSE IF propertyId # NoId
    THEN LET propertyData == Single({p \in properties : p.id = propertyId})
         IN  IF propertyData.error THEN StoreError(1)
             ELSE IF TheRow(propertyData).owner # userId
             THEN Reply(403, "Forbidden - You do not own this property", <<>>, 1)
             ELSE GoOn(1, {})
    ELSE IF ~Falsy(queryUserId)
    THEN IF queryUserId # userId
         THEN Reply(403, "Forbidden - You can only view your own inquiries", <<>>, 0)
         ELSE Reply(200, "",
                    OrderByCreatedAtDesc({i \in inquiries : i.sender = queryUserId}), 1)
    ELSE LET propertiesOwned == {p \in properties : p.owner = userId}
             propertyIds == {p.id : p \in propertiesOwned}
         IN  GoOn(1, propertyIds)

\* Mutant of OrFilter: the in-list is left out of the filter.
OrFilter_SenderOnly(userId, propertyIds, row) ==
    row.sender = userId

\* Mutant of OrFilter: in.() with no ids matches every row.
OrFilter_EmptyInMatchesAll(userId, propertyIds, row) ==
    row.sender = userId \/ propertyIds = {} \/ row.property \in propertyIds

\* .or(`sender.eq.${userId},property.in.(${propertyIds.join(',')})`): the
\* store reads in.() with no ids as the empty list, which matches no row.
OrFilter(userId, propertyIds, row) ==
    row.sender = userId \/ row.property \in propertyIds

\* case 'GET', the query: .eq('property', propertyId) or the .or(...) filter
InquiriesGetQuery(op, userId, propertyId, propertyIds) ==
    LET data == IF op = "GET_PROPERTY"
                THEN {i \in inquiries : i.property = propertyId}
                ELSE {i \in inquiries : OrFilter(userId, propertyIds, i)}
    IN  Reply(200, "", OrderByCreatedAtDesc(data), 2)

SelfInquiry == "You cannot send an inquiry to your own property"

\* Mutant of InquiriesPostCheck: the property is looked up before the message is
\* tested.
InquiriesPostCheck_LookupFirst(userId, body) ==
    IF userId = null THEN Reply(401, "Unauthorized", <<>>, 0)
    ELSE IF "property" \notin body.has \/ body.property = NoId
    THEN Reply(400, "Missing required fields", <<>>, 0)
    ELSE LET propertyData == Single({p \in properties : p.id = body.property})
         IN  IF propertyData.error THEN StoreError(1)
             ELSE IF Falsy(Field(body, "message"))
             THEN Reply(400, "Missing required fields", <<>>, 1)
             ELSE IF TheRow(propertyData).owner = userId
             THEN Reply(400, SelfInquiry, <<>>, 1)
             ELSE GoOn(1, {})

\* Mutant of InquiriesPostCheck: the owner comparison is left out.
InquiriesPostCheck_NoSelfCheck(userId, body) ==
    IF userId = null THEN Reply(401, "Unauthorized", <<>>, 0)
    ELSE IF "property" \notin body.has \/ body.property = NoId \/ Falsy(Field(body, "message"))
    THEN Reply(400, "Missing required fields", <<>>, 0)
    ELSE LET propertyData == Single({p \in properties : p.id = body.property})
         IN  IF propertyData.error THEN StoreError(1)
             ELSE IF propertyData.rows = {} THEN Reply(404, "Property not found", <<>>, 1)
             ELSE GoOn(1, {})

\* case 'POST', to the self-inquiry check
InquiriesPostCheck(userId, body) ==
    IF userId = null THEN Reply(401, "Unauthorized", <<>>, 0)
    ELSE IF "property" \notin body.has \/ body.property = NoId \/ Falsy(Field(body, "message"))
    THEN Reply(400, "Missing required fields", <<>>, 0)
    ELSE LET propertyData == Single({p \in properties : p.id = body.property})
         IN  IF propertyData.error THEN StoreError(1)
             ELSE IF propertyData.rows = {} THEN Reply(404, "Property not found", <<>>, 1)
             ELSE IF TheRow(propertyData).owner = userId
             THEN Reply(400, SelfInquiry, <<>>, 1)
             ELSE GoOn(1, {})

\* case 'POST', the insert: .insert([{ property, sender: userId, message }]).select()
InquiriesPostInsert(userId, body) ==
    LET row == InquiryRow(nextInquiryId, body.property, userId, body.message, nextInquiryId)
    IN  IF ~ForeignKeyOk(properties, row) THEN StoreError(2)
        ELSE Outcome(201, "", <<row>>, 2, FALSE, properties, inquiries \cup {row}, {})

\* Mutant of InquiriesDeleteCheck: any authenticated caller is let through.
InquiriesDeleteCheck_AnyCaller(userId, id) ==
    IF id = NoId THEN Reply(400, "Missing inquiry ID", <<>>, 0)
    ELSE IF userId = null THEN Reply(401, "Unauthorized", <<>>, 0)
    ELSE LET inquiryData == Single({i \in inquiries : i.id = id})
         IN  IF inquiryData.error THEN StoreError(1)
             ELSE GoOn(1, {})

\* Mutant of InquiriesDeleteCheck: only the sender is let through.
InquiriesDeleteCheck_SenderOnly(userId, id) ==
    IF id = NoId THEN Reply(400, "Missing inquiry ID", <<>>, 0)
    ELSE IF userId = null THEN Reply(401, "Unauthorized", <<>>, 0)
    ELSE LET inquiryData == Single({i \in inquiries : i.id = id})
         IN  IF inquiryData.error THEN StoreError(1)
             ELSE IF TheRow(inquiryData).sender # userId
             THEN Reply(403, "Forbidden - You are not authorized to delete this inquiry", <<>>, 1)
             ELSE GoOn(1, {})

\* case 'DELETE', to the authorization check
InquiriesDeleteCheck(userId, id) ==
    IF id = NoId THEN Reply(400, "Missing inquiry ID", <<>>, 0)
    ELSE IF userId = null THEN Reply(401, "Unauthorized", <<>>, 0)
    ELSE LET inquiryData == Single({i \in inquiries : i.id = id})
         IN  IF inquiryData.error THEN StoreError(1)
             ELSE LET propertyOwnerId == OwnerOf(properties, TheRow(inquiryData).property)
                      isAuthorized == TheRow(inquiryData).sender = userId
                                      \/ propertyOwnerId = userId
                  IN  IF ~isAuthorized
                      THEN Reply(403, "Forbidden - You are not authorized to delete this inquiry", <<>>, 1)
                      ELSE GoOn(1, {})

\* case 'DELETE', the delete: .delete().eq('id', id)
InquiriesDelete(userId, id) ==
    Outcome(200, "", <<>>, 2, FALSE, properties, {i \in inquiries : i.id # id}, {})

\* default: res.setHeader('Allow', [...]); 405
InquiriesDefault(method) == Reply(405, "Method Not Allowed", <<>>, 0)

---------------------------------------------------------------------------
(* The browser client: the dashboard and the listing detail page.  Their   *)
(* store calls carry the session's user and pass the row-level policies.   *)

\* The dashboard's form: every field is a string.
FormData(title, city, price, image_url) ==
    [title |-> title, city |-> city, price |-> price, image_url |-> image_url]

DashboardForms == { FormData("Villa", "Yerevan", "100000", "img") }

\* Forms the browser's validation (required, type number, min 0) lets through.
CatalogForms == DashboardForms \cup { FormData("House", "Gyumri", "0", "") }

\* parseFloat(formData.price) as the store receives it: JSON writes NaN as null.
parseFloat(s) ==
    CASE s = "100000" -> Num(100000)
      [] s = "0" -> Num(0)
      [] OTHER -> NullNum

\* handleSubmit's propertyData
PropertyData(uid, formData) ==
    [title |-> formData.title, city |-> formData.city,
     price |-> parseFloat(formData.price), image_url |-> formData.image_url,
     owner |-> uid]

\* handleSubmit, not editing: .insert([propertyData]); the policy checks the new row.
DashboardInsert(uid, formData) ==
    LET d == PropertyData(uid, formData)
        row == PropertyRow(nextPropertyId, d.owner, d.title, d.city, d.price, d.image_url,
                           nextPropertyId, uid)
    IN  IF OwnersManageProperties(uid, row) THEN properties \cup {row} ELSE properties

\* handleSubmit, editing: .update(propertyData).eq('id', currentPropertyId); the
\* policy lets through the rows it holds of, and checks the rows as updated.
DashboardUpdate(uid, currentPropertyId, formData) ==
    LET d == PropertyData(uid, formData)
        hit == {p \in properties : p.id = currentPropertyId /\ OwnersManageProperties(uid, p)}
        updated == {[p EXCEPT !.title = d.title, !.city = d.city, !.price = d.price,
                              !.image_url = d.image_url, !.owner = d.owner] : p \in hit}
    IN  IF \A q \in updated : OwnersManageProperties(uid, q)
        THEN (properties \ hit) \cup updated
        ELSE properties

\* handleDelete: .delete().eq('id', id), the rows the policy holds of.
DashboardDelete(uid, id) ==
    {p \in properties : ~(p.id = id /\ OwnersManageProperties(uid, p))}

\* The listing page's handleSubmit: .insert([{ property: property.id, sender:
\* user.id, message }]); the policy checks the new row, then the foreign key.
ListingInsert(uid, propertyId, message) ==
    LET row == InquiryRow(nextInquiryId, propertyId, uid, message, nextInquiryId)
    IN  IF uid # null /\ RelevantUsers(uid, properties, row) /\ ForeignKeyOk(properties, row)
        THEN inquiries \cup {row}
        ELSE inquiries

---------------------------------------------------------------------------
(* The Dashboard component.  A handler's statements up to an await, and    *)
(* from an await's result to the next, run unbroken; the state they set is *)
(* the state of the next render.                                           *)

\* The dashboard's calls of the store that may be awaited at one time.
MaxDashboardCalls == 1

\* useState's initial values; calls are the store calls awaited, fetching is
\* fetchProperties under way.
EmptyForm == FormData("", "", "", "")

DashboardInit ==
    [loading |-> TRUE, session |-> null, properties |-> {}, formData |-> EmptyForm,
     isEditing |-> FALSE, currentPropertyId |-> NoId, formError |-> null,
     successMessage |-> null, calls |-> {}, fetching |-> FALSE]

\* What the user types into a field of the form.
TypedValues ==
    [title |-> {"Villa", "House"}, city |-> {"Yerevan"}, price |-> {"100000"},
     image_url |-> {"img"}]

\* property.price.toString()
toString(price) ==
    CASE price = Num(100000) -> "100000"
      [] price = Num(0) -> "0"
      [] OTHER -> ""

\* checkSession, from getSession's result on; without a session the page is left
\* for /register.
checkSession(d, session) ==
    [d EXCEPT !.session = session, !.loading = FALSE, !.fetching = session # null]

\* fetchProperties, from the select's result on.
fetchProperties(d, failed) ==
    IF failed THEN [d EXCEPT !.fetching = FALSE]
    ELSE [d EXCEPT !.fetching = FALSE,
                   !.properties = {p \in properties : p.owner = d.session}]

handleInputChange(d, name, value) ==
    [d EXCEPT !.formData = [@ EXCEPT ![name] = value]]

\* handleSubmit up to its store call: the call takes isEditing, currentPropertyId
\* and formData as they are at the click.
handleSubmitCall(d) ==
    [kind |-> IF d.isEditing /\ d.currentPropertyId # NoId THEN "update" ELSE "insert",
     id |-> d.currentPropertyId, formData |-> d.formData]

handleSubmitStart(d) ==
    LET cleared == [d EXCEPT !.formError = null, !.successMessage = null]
    IN  IF d.session = null
        THEN [cleared EXCEPT !.formError = "You must be logged in"]
        ELSE [cleared EXCEPT !.calls = @ \cup {handleSubmitCall(d)}]

\* Mutant of handleSubmitEnd: a failed submit leaves edit mode half way.
handleSubmitEnd_FailedLeavesEdit(d, call, error, message) ==
    IF error
    THEN [d EXCEPT !.calls = @ \ {call}, !.formError = message, !.isEditing = FALSE]
    ELSE [d EXCEPT !.calls = @ \ {call},
                   !.successMessage = IF call.kind = "update"
                                      THEN "Property updated successfully"
                                      ELSE "Property added successfully",
                   !.formData = EmptyForm,
                   !.isEditing = FALSE,
                   !.currentPropertyId = NoId,
                   !.fetching = TRUE]

\* handleSubmit from its store call's result on.
handleSubmitEnd(d, call, error, message) ==
    IF error
    THEN [d EXCEPT !.calls = @ \ {call}, !.formError = message]
    ELSE [d EXCEPT !.calls = @ \ {call},
                   !.successMessage = IF call.kind = "update"
                                      THEN "Property updated successfully"
                                      ELSE "Property added successfully",
                   !.formData = EmptyForm,
                   !.isEditing = FALSE,
                   !.currentPropertyId = NoId,
                   !.fetching = TRUE]

\* handleEdit; toString of a null price throws before any state is set.
handleEdit(d, property) ==
    IF property.price = NullNum THEN d
    ELSE [d EXCEPT !.formData = FormData(property.title, property.city,
                                         toString(property.price), property.image_url),
                   !.isEditing = TRUE,
                   !.currentPropertyId = property.id,
                   !.formError = null,
                   !.successMessage = null]

\* The Cancel button's onClick.
CancelOnClick(d) ==
    [d EXCEPT !.formData = EmptyForm, !.isEditing = FALSE, !.currentPropertyId = NoId]

\* handleDelete, confirmed, up to its store call.
handleDeleteStart(d, id) ==
    [d EXCEPT !.calls = @ \cup {[kind |-> "delete", id |-> id, formData |-> EmptyForm]}]

\* handleDelete from its store call's result on.
handleDeleteEnd(d, call, error, message) ==
    IF error
    THEN [d EXCEPT !.calls = @ \ {call}, !.formError = message]
    ELSE [d EXCEPT !.calls = @ \ {call},
                   !.fetching = d.session # null,
                   !.successMessage = "Property deleted successfully"]

---------------------------------------------------------------------------
(* The PropertyDetails component, the page /listings/[id].                 *)

ListingRoute == "/listings/[id]"

\* useState's initial values, before getServerSideProps has given the property;
\* await is the call handleSubmit waits for, user and message what it holds.
ListingInit ==
    [property |-> NoId, inquiry |-> "", submitting |-> FALSE, success |-> FALSE,
     error |-> null, route |-> ListingRoute, await |-> "", user |-> null, message |-> ""]

\* getServerSideProps: the property, or null when .single() finds no row.
getServerSideProps(id) ==
    LET result == Single({p \in properties : p.id = id})
    IN  IF result.error THEN NoId ELSE TheRow(result).id

\* The message a failed store call leaves in a page: the call's own, or the page's.
CallErrors(fallback) == {"store error", fallback}

\* Mutant of ListingFinally: the finally block does not clear submitting.
ListingFinally_KeepsSubmitting(l) ==
    [l EXCEPT !.await = "", !.user = null, !.message = ""]

\* handleSubmit's finally block.
ListingFinally(l) ==
    [l EXCEPT !.submitting = FALSE, !.await = "", !.user = null, !.message = ""]

\* handleInputChange of the textarea.
ListingInputChange(l, value) == [l EXCEPT !.inquiry = value]

\* handleSubmit up to getUser.
ListingSubmitStart(l) ==
    [l EXCEPT !.submitting = TRUE, !.error = null, !.await = "getUser",
              !.message = l.inquiry]

\* handleSubmit from getUser's result to the insert, or to the redirect.
ListingSubmitGotUser(l, user) ==
    IF user = null
    THEN ListingFinally([l EXCEPT !.error = "You must be logged in to send an inquiry",
                                  !.route = "/register"])
    ELSE [l EXCEPT !.user = user, !.await = "insert"]

\* handleSubmit from the insert's result on.
ListingSubmitInserted(l, error, message) ==
    ListingFinally(IF error THEN [l EXCEPT !.error = message]
                   ELSE [l EXCEPT !.success = TRUE, !.inquiry = ""])

---------------------------------------------------------------------------
(* The state machine *)

Init ==
    /\ properties = {}
    /\ inquiries = {}
    /\ nextPropertyId = 1
    /\ nextInquiryId = 1
    /\ inFlight = {}
    /\ resp = NoResp
    /\ dashboard = DashboardInit
    /\ listing = ListingInit

\* The tables after a store call; an insert takes the fresh id.
Store(props, inqs) ==
    LET insertedProperty == \E p \in props : p.id = nextPropertyId
        insertedInquiry == \E i \in inqs : i.id = nextInquiryId
    IN  /\ properties' = props
        /\ inquiries' = inqs
        /\ nextPropertyId' = IF insertedProperty THEN nextPropertyId + 1 ELSE nextPropertyId
        /\ nextInquiryId' = IF insertedInquiry THEN nextInquiryId + 1 ELSE nextInquiryId

\* A request arrives and runs to the end of its first store call, while fewer than
\* limit requests are between their store calls.
FirstStepWithin(limit, route, method, op, userId, id, queryUserId, body, out) ==
    /\ out.cont => Cardinality(inFlight) < limit
    /\ Store(out.props, out.inqs)
    /\ inFlight' = IF out.cont
                   THEN inFlight \cup {Request(op, userId, id, body, out.propertyIds)}
                   ELSE inFlight
    /\ resp' = IF out.cont THEN NoResp
               ELSE Response(route, method, userId, id, queryUserId, body, out)
    /\ UNCHANGED pages

\* A request arrives and runs to the end of its first store call.
FirstStep(route, method, op, userId, id, queryUserId, body, out) ==
    FirstStepWithin(MaxInFlight, route, method, op, userId, id, queryUserId, body, out)

\* A request makes its second store call and answers.
SecondStep(route, method, r, out) ==
    /\ Store(out.props, out.inqs)
    /\ inFlight' = inFlight \ {r}
    /\ resp' = Response(route, method, r.userId, r.id, undefined, r.body, out)
    /\ UNCHANGED pages

\* The ids a request may name: those issued so far and the next, not yet issued.
NamedPropertyIds == {id \in PropertyIds : id <= nextPropertyId} \cup {NoId}

NamedInquiryIds == {id \in InquiryIds : id <= nextInquiryId} \cup {NoId}

PostProperties(token, body) ==
    LET userId == resolveUser(token)
        out == PropertiesPost(userId, body)
    IN  /\ out.status = 201 => nextPropertyId <= MaxProperties
        /\ FirstStep("properties", "POST", "", userId, NoId, undefined, body, out)

PutPropertiesCheck(token, id, body) ==
    LET userId == resolveUser(token)
    IN  /\ FirstStep("properties", "PUT", "PUT_PROPERTY", userId, id, undefined, body,
                     PropertiesPutCheck(userId, id))

PutPropertiesUpdate(r) ==
    /\ r.op = "PUT_PROPERTY"
    /\ SecondStep("properties", "PUT", r, PropertiesPutUpdate(r.userId, r.id, r.body))

DeletePropertiesCheck(token, id) ==
    LET userId == resolveUser(token)
    IN  /\ FirstStep("properties", "DELETE", "DELETE_PROPERTY", userId, id, undefined,
                     EmptyBody, PropertiesDeleteCheck(userId, id))

DeletePropertiesDelete(r) ==
    /\ r.op = "DELETE_PROPERTY"
    /\ SecondStep("properties", "DELETE", r, PropertiesDelete(r.userId, r.id))

GetInquiriesCheck(token, propertyId, queryUserId) ==
    LET userId == resolveUser(token)
    IN  /\ FirstStep("inquiries", "GET",
                     IF propertyId # NoId THEN "GET_PROPERTY" ELSE "GET_RELATED",
                     userId, propertyId, queryUserId, EmptyBody,
                     InquiriesGetCheck(userId, propertyId, queryUserId))

GetInquiriesQuery(r) ==
    /\ r.op \in {"GET_PROPERTY", "GET_RELATED"}
    /\ SecondStep("inquiries", "GET", r,
                  InquiriesGetQuery(r.op, r.userId, r.id, r.propertyIds))

PostInquiriesCheck(token, body) ==
    LET userId == resolveUser(token)
        out == InquiriesPostCheck(userId, body)
        posting == {r \in inFlight : r.op = "POST_INQUIRY"}
    IN  /\ out.cont => nextInquiryId + Cardinality(posting) <= MaxInquiries
        /\ FirstStep("inquiries", "POST", "POST_INQUIRY", userId,
                     IF "property" \in body.has THEN body.property ELSE NoId,
                     undefined, body, out)

PostInquiriesInsert(r) ==
    /\ r.op = "POST_INQUIRY"
    /\ SecondStep("inquiries", "POST", r, InquiriesPostInsert(r.userId, r.body))

DeleteInquiriesCheck(token, id) ==
    LET userId == resolveUser(token)
    IN  /\ FirstStep("inquiries", "DELETE", "DELETE_INQUIRY", userId, id, undefined,
                     EmptyBody, InquiriesDeleteCheck(userId, id))

DeleteInquiriesDelete(r) ==
    /\ r.op = "DELETE_INQUIRY"
    /\ SecondStep("inquiries", "DELETE", r, InquiriesDelete(r.userId, r.id))

\* A request of /api/properties with a method the handler has no case for.
OtherProperties(token, method) ==
    LET userId == resolveUser(token)
    IN  /\ FirstStep("properties", method, "", userId, NoId, undefined, EmptyBody,
                     PropertiesDefault(method))

\* A request of /api/inquiries with a method the handler has no case for.
OtherInquiries(token, method) ==
    LET userId == resolveUser(token)
    IN  /\ FirstStep("inquiries", method, "", userId, NoId, undefined, EmptyBody,
                     InquiriesDefault(method))

\* Dashboard.handleSubmit with a session, not editing.
DashboardSubmitInsert(uid, formData) ==
    /\ nextPropertyId <= MaxProperties
    /\ Store(DashboardInsert(uid, formData), inquiries)
    /\ UNCHANGED <<inFlight, resp, pages>>

\* Dashboard.handleSubmit with a session, editing a property of its list: one
\* the session's user owns, or one deleted since the list was fetched.
DashboardSubmitUpdate(uid, currentPropertyId, formData) ==
    /\ currentPropertyId < nextPropertyId
    /\ \A p \in properties : p.id = currentPropertyId => p.owner = uid
    /\ Store(DashboardUpdate(uid, currentPropertyId, formData), inquiries)
    /\ UNCHANGED <<inFlight, resp, pages>>

\* Dashboard.handleDelete of a property of its list.
DashboardHandleDelete(uid, id) ==
    /\ id < nextPropertyId
    /\ \A p \in properties : p.id = id => p.owner = uid
    /\ LET props == DashboardDelete(uid, id)
           gone == {p.id : p \in properties \ props}
       IN  Store(props, CascadeInquiries(inquiries, gone))
    /\ UNCHANGED <<inFlight, resp, pages>>

\* PropertyDetails.handleSubmit on the page of a property that was stored when
\* the page was rendered; user is the session's user or null.
ListingHandleSubmit(user, propertyId, message) ==
    /\ propertyId < nextPropertyId
    /\ nextInquiryId <= MaxInquiries
    /\ Store(properties, ListingInsert(user, propertyId, message))
    /\ UNCHANGED <<inFlight, resp, pages>>

\* res.status(...).json(...) reaches the caller.
SendResponse ==
    /\ resp # NoResp
    /\ resp' = NoResp
    /\ UNCHANGED <<properties, inquiries, nextPropertyId, nextInquiryId, inFlight, pages>>

\* A handler or a browser call takes its step once the last response is out.
Idle == resp = NoResp

Next ==
    \/ SendResponse
    \/ Idle /\ \E token \in Tokens, body \in PropertyBodies : PostProperties(token, body)
    \/ Idle /\ \E token \in Tokens, id \in NamedPropertyIds, body \in PropertyBodies :
                   PutPropertiesCheck(token, id, body)
    \/ Idle /\ \E r \in inFlight : PutPropertiesUpdate(r)
    \/ Idle /\ \E token \in Tokens, id \in NamedPropertyIds : DeletePropertiesCheck(token, id)
    \/ Idle /\ \E r \in inFlight : DeletePropertiesDelete(r)
    \/ Idle /\ \E token \in Tokens, propertyId \in NamedPropertyIds,
                  queryUserId \in Users \cup {undefined} :
                   GetInquiriesCheck(token, propertyId, queryUserId)
    \/ Idle /\ \E r \in inFlight : GetInquiriesQuery(r)
    \/ Idle /\ \E token \in Tokens, body \in InquiryBodies : PostInquiriesCheck(token, body)
    \/ Idle /\ \E r \in inFlight : PostInquiriesInsert(r)
    \/ Idle /\ \E token \in Tokens, id \in NamedInquiryIds : DeleteInquiriesCheck(token, id)
    \/ Idle /\ \E r \in inFlight : DeleteInquiriesDelete(r)
    \/ Idle /\ \E uid \in Users, formData \in DashboardForms :
                   DashboardSubmitInsert(uid, formData)
    \/ Idle /\ \E uid \in Users, id \in PropertyIds, formData \in DashboardForms :
                   DashboardSubmitUpdate(uid, id, formData)
    \/ Idle /\ \E uid \in Users, id \in PropertyIds : DashboardHandleDelete(uid, id)
    \/ Idle /\ \E user \in Users \cup {null}, propertyId \in PropertyIds :
                   ListingHandleSubmit(user, propertyId, "interested")
    \/ Idle /\ \E token \in Tokens : OtherProperties(token, "PATCH")
    \/ Idle /\ \E token \in Tokens : OtherInquiries(token, "PUT")

Spec == Init /\ [][Next]_vars

\* PUT, DELETE of /api/properties and DELETE of /api/inquiries in the race
\* specification, where MaxRaceInFlight requests may be between their store calls.
RacePutPropertiesCheck(token, id, body) ==
    LET userId == resolveUser(token)
    IN  /\ FirstStepWithin(MaxRaceInFlight, "properties", "PUT", "PUT_PROPERTY", userId, id,
                           undefined, body, PropertiesPutCheck(userId, id))

RaceDeletePropertiesCheck(token, id) ==
    LET userId == resolveUser(token)
    IN  /\ FirstStepWithin(MaxRaceInFlight, "properties", "DELETE", "DELETE_PROPERTY", userId,
                           id, undefined, EmptyBody, PropertiesDeleteCheck(userId, id))

RaceDeleteInquiriesCheck(token, id) ==
    LET userId == resolveUser(token)
    IN  /\ FirstStepWithin(MaxRaceInFlight, "inquiries", "DELETE", "DELETE_INQUIRY", userId,
                           id, undefined, EmptyBody, InquiriesDeleteCheck(userId, id))

\* The writes of /api/properties and /api/inquiries with their store calls
\* interleaved: every user's PUT and DELETE requests, properties created through
\* POST and inquiries through the listing page.
NextRace ==
    \/ SendResponse
    \/ Idle /\ \E token \in Users, body \in {b \in PropertyBodies : "price" \in b.has} :
                   PostProperties(token, body)
    \/ Idle /\ \E token \in Users, id \in NamedPropertyIds \ {NoId},
                  body \in {b \in PropertyBodies : "price" \notin b.has} :
                   RacePutPropertiesCheck(token, id, body)
    \/ Idle /\ \E r \in inFlight : PutPropertiesUpdate(r)
    \/ Idle /\ \E token \in Users, id \in NamedPropertyIds \ {NoId} :
                   RaceDeletePropertiesCheck(token, id)
    \/ Idle /\ \E r \in inFlight : DeletePropertiesDelete(r)
    \/ Idle /\ \E token \in Users, id \in NamedInquiryIds \ {NoId} :
                   RaceDeleteInquiriesCheck(token, id)
    \/ Idle /\ \E r \in inFlight : DeleteInquiriesDelete(r)
    \/ Idle /\ \E user \in Users, propertyId \in PropertyIds :
                   ListingHandleSubmit(user, propertyId, "interested")

SpecRace == Init /\ [][NextRace]_vars

\* Mutant of GetProperties: the handler asks for a user as its other cases do.
GetProperties_TokenRequired(token, id, ownerId) ==
    LET userId == resolveUser(token)
    IN  /\ FirstStep("properties", "GET", "", userId, id, ownerId, EmptyBody,
                     IF userId = null THEN Reply(401, "Unauthorized", <<>>, 0)
                     ELSE PropertiesGet(id, ownerId))

\* GET /api/properties; the response's queryUserId is the query's ownerId.
GetProperties(token, id, ownerId) ==
    LET userId == resolveUser(token)
    IN  /\ FirstStep("properties", "GET", "", userId, id, ownerId, EmptyBody,
                     PropertiesGet(id, ownerId))

\* POST /api/properties while the list specification's table has room.
ListPostProperties(token, body) ==
    LET userId == resolveUser(token)
        out == PropertiesPost(userId, body)
    IN  /\ out.status = 201 => nextPropertyId <= MaxListRows
        /\ FirstStep("properties", "POST", "", userId, NoId, undefined, body, out)

\* Who creates the next property of the list specification.
ListPosters == IF nextPropertyId <= MaxMixedRows THEN Users ELSE {"U1"}

\* The ids a GET names in the list specification: none, the oldest, the newest, the
\* next.
ListNamedIds == {NoId, 1, nextPropertyId - 1, nextPropertyId}

\* The property list alone: properties are created through /api/properties until
\* there are more than ListLimit of them, and read through GET /api/properties.
NextList ==
    \/ SendResponse
    \/ Idle /\ \E token \in ListPosters, body \in {b \in PropertyBodies : "price" \in b.has} :
                   ListPostProperties(token, body)
    \/ Idle /\ \E token \in {"absent", "U1"}, id \in ListNamedIds,
                  ownerId \in Users \cup {undefined} :
                   GetProperties(token, id, ownerId)

SpecList == Init /\ [][NextList]_vars

\* The tables of the store.
tables == <<properties, inquiries, nextPropertyId, nextInquiryId>>

\* The dashboard shows its form and its list.
DashboardShown == ~dashboard.loading /\ dashboard.session # null

\* The dashboard is mounted and getSession answers.
DashboardCheckSession(session) ==
    /\ dashboard.loading
    /\ dashboard' = checkSession(dashboard, session)
    /\ UNCHANGED <<tables, inFlight, resp, listing>>

\* fetchProperties' select answers.
DashboardFetchReturn(failed) ==
    /\ dashboard.fetching
    /\ dashboard' = fetchProperties(dashboard, failed)
    /\ UNCHANGED <<tables, inFlight, resp, listing>>

DashboardInputChange(name, value) ==
    /\ DashboardShown
    /\ dashboard' = handleInputChange(dashboard, name, value)
    /\ UNCHANGED <<tables, inFlight, resp, listing>>

\* The form is submitted: the browser has checked the required fields.
DashboardSubmitClick ==
    /\ DashboardShown
    /\ dashboard.formData.title # ""
    /\ dashboard.formData.city # ""
    /\ dashboard.formData.price # ""
    /\ Cardinality(dashboard.calls) < MaxDashboardCalls
    /\ handleSubmitCall(dashboard).kind = "insert"
       => nextPropertyId + Cardinality({c \in dashboard.calls : c.kind = "insert"})
          <= MaxProperties
    /\ dashboard' = handleSubmitStart(dashboard)
    /\ UNCHANGED <<tables, inFlight, resp, listing>>

\* handleSubmit's store call takes effect and answers, or fails on its way.
DashboardSubmitReturn(call, failed, message) ==
    /\ call.kind \in {"insert", "update"}
    /\ LET uid == dashboard.session
           props == IF failed THEN properties
                    ELSE IF call.kind = "update"
                         THEN DashboardUpdate(uid, call.id, call.formData)
                         ELSE DashboardInsert(uid, call.formData)
           error == failed \/ (call.kind = "insert" /\ props = properties)
       IN  /\ Store(props, inquiries)
           /\ dashboard' = handleSubmitEnd(dashboard, call, error, message)
    /\ UNCHANGED <<inFlight, resp, listing>>

DashboardEditClick(property) ==
    /\ DashboardShown
    /\ dashboard' = handleEdit(dashboard, property)
    /\ UNCHANGED <<tables, inFlight, resp, listing>>

\* The Cancel button is there in edit mode.
DashboardCancelClick ==
    /\ DashboardShown
    /\ dashboard.isEditing
    /\ dashboard' = CancelOnClick(dashboard)
    /\ UNCHANGED <<tables, inFlight, resp, listing>>

DashboardDeleteClick(id) ==
    /\ DashboardShown
    /\ Cardinality(dashboard.calls) < MaxDashboardCalls
    /\ dashboard' = handleDeleteStart(dashboard, id)
    /\ UNCHANGED <<tables, inFlight, resp, listing>>

\* handleDelete's store call takes effect and answers, or fails on its way.
DashboardDeleteReturn(call, failed, message) ==
    /\ call.kind = "delete"
    /\ LET props == IF failed THEN properties
                    ELSE DashboardDelete(dashboard.session, call.id)
           gone == {p.id : p \in properties \ props}
       IN  /\ Store(props, CascadeInquiries(inquiries, gone))
           /\ dashboard' = handleDeleteEnd(dashboard, call, failed, message)
    /\ UNCHANGED <<inFlight, resp, listing>>

\* One user's dashboard: the user types, submits, edits, cancels and deletes, and
\* the store calls answer in between.
NextDashboard ==
    \/ \E session \in {null, "U1"} : DashboardCheckSession(session)
    \/ \E failed \in BOOLEAN : DashboardFetchReturn(failed)
    \/ \E name \in DOMAIN TypedValues : \E value \in TypedValues[name] :
           DashboardInputChange(name, value)
    \/ DashboardSubmitClick
    \/ \E call \in dashboard.calls, failed \in BOOLEAN,
          message \in CallErrors("Failed to save property") :
           DashboardSubmitReturn(call, failed, message)
    \/ \E property \in dashboard.properties : DashboardEditClick(property)
    \/ DashboardCancelClick
    \/ \E property \in dashboard.properties : DashboardDeleteClick(property.id)
    \/ \E call \in dashboard.calls, failed \in BOOLEAN,
          message \in CallErrors("Failed to delete property") :
           DashboardDeleteReturn(call, failed, message)

SpecDashboard == Init /\ [][NextDashboard]_vars

\* The page shows the property and its form.
ListingShown == listing.property # NoId /\ listing.route = ListingRoute

\* The page is asked for and rendered with getServerSideProps' property.
ListingRender(id) ==
    /\ listing.property = NoId
    /\ listing' = [listing EXCEPT !.property = getServerSideProps(id)]
    /\ UNCHANGED <<tables, inFlight, resp, dashboard>>

ListingHandleInputChange(value) ==
    /\ ListingShown
    /\ listing' = ListingInputChange(listing, value)
    /\ UNCHANGED <<tables, inFlight, resp, dashboard>>

\* The form is submitted: the button is enabled and the message is not empty.
ListingSubmitClick ==
    /\ ListingShown
    /\ ~listing.submitting
    /\ listing.inquiry # ""
    /\ nextInquiryId <= MaxInquiries
    /\ listing' = ListingSubmitStart(listing)
    /\ UNCHANGED <<tables, inFlight, resp, dashboard>>

\* getUser answers with the session's user, or with none.
ListingGetUserReturn(user) ==
    /\ listing.await = "getUser"
    /\ listing' = ListingSubmitGotUser(listing, user)
    /\ UNCHANGED <<tables, inFlight, resp, dashboard>>

\* The insert takes effect and answers, or fails on its way.
ListingInsertReturn(failed, message) ==
    /\ listing.await = "insert"
    /\ LET inqs == IF failed THEN inquiries
                   ELSE ListingInsert(listing.user, listing.property, listing.message)
       IN  /\ Store(properties, inqs)
           /\ listing' = ListingSubmitInserted(listing, inqs = inquiries, message)
    /\ UNCHANGED <<inFlight, resp, dashboard>>

ListingGetUserReturns == \E user \in Users \cup {null} : ListingGetUserReturn(user)

ListingInsertReturns ==
    \E failed \in BOOLEAN, message \in CallErrors("Failed to send inquiry. Please try again.") :
        ListingInsertReturn(failed, message)

\* One visitor's listing page, while U1 adds and deletes properties on a dashboard.
NextListing ==
    \/ \E formData \in DashboardForms : DashboardSubmitInsert("U1", formData)
    \/ \E id \in PropertyIds : DashboardHandleDelete("U1", id)
    \/ \E id \in PropertyIds : ListingRender(id)
    \/ ListingHandleInputChange("interested")
    \/ ListingSubmitClick
    \/ ListingGetUserReturns
    \/ ListingInsertReturns

SpecListing == Init /\ [][NextListing]_vars

\* Every call the listing page awaits answers.
SpecListingFair ==
    /\ Init
    /\ [][NextListing]_vars
    /\ WF_vars(ListingGetUserReturns)
    /\ WF_vars(ListingInsertReturns)

\* The property catalog alone: one user and an anonymous caller create and update
\* through /api/properties and the dashboard, with the bodies of CatalogBodies.
CatalogUsers == {"U1"}

CatalogTokens == CatalogUsers \cup {"absent"}

NextCatalog ==
    \/ SendResponse
    \/ Idle /\ \E token \in CatalogTokens, body \in CatalogBodies : PostProperties(token, body)
    \/ Idle /\ \E token \in CatalogTokens, id \in NamedPropertyIds, body \in CatalogBodies :
                   PutPropertiesCheck(token, id, body)
    \/ Idle /\ \E r \in inFlight : PutPropertiesUpdate(r)
    \/ Idle /\ \E uid \in CatalogUsers, formData \in CatalogForms :
                   DashboardSubmitInsert(uid, formData)
    \/ Idle /\ \E uid \in CatalogUsers, id \in PropertyIds, formData \in CatalogForms :
                   DashboardSubmitUpdate(uid, id, formData)

SpecCatalog == Init /\ [][NextCatalog]_vars

---------------------------------------------------------------------------
(* The claims *)

Answered(route, method) == resp.route = route /\ resp.method = method

Answers(route, method) == resp'.route = route /\ resp'.method = method

TablesUnchanged == properties' = properties /\ inquiries' = inquiries

PropertyStored(id) == \E p \in properties : p.id = id

\* C1: no stored inquiry has the owner of its property as its sender, whichever
\* operation wrote it (POST /api/inquiries or the listing page's form).
C1_NoSelfInquiry ==
    \A i \in inquiries : i.sender # OwnerOf(properties, i.property)

\* C2: a PUT or DELETE of /api/properties by an authenticated user who does not own
\* the stored property it names is answered 403, and that answer's step leaves both
\* tables as they were.
C2_NonOwnerWriteForbidden ==
    [][ ( /\ resp'.route = "properties"
          /\ resp'.method \in {"PUT", "DELETE"}
          /\ resp'.userId # null
          /\ \E p \in properties : p.id = resp'.id /\ p.owner # resp'.userId )
        => (resp'.status = 403 /\ TablesUnchanged) ]_vars

C2_Witness ==
    /\ Answered("properties", "PUT")
    /\ resp.status = 403
    /\ \E p \in properties : p.id = resp.id /\ p.owner # resp.userId /\ resp.userId # null

\* C3: no step changes the owner of a stored property, a PUT whose body names
\* another owner included.
C3_OwnerNeverChanges ==
    [][ \A p \in properties : \A q \in properties' :
            q.id = p.id => q.owner = p.owner ]_vars

C3_Witness ==
    /\ Answered("properties", "PUT")
    /\ resp.status = 200
    /\ "owner" \in resp.body.has
    /\ Len(resp.rows) = 1
    /\ resp.rows[1].owner # resp.body.owner
    /\ resp.rows[1].title = resp.body.title

\* C4: every row a GET of /api/inquiries returns with 200 was sent by the caller or
\* is on a property the caller owns.
C4_ReturnedInquiriesAreRelated ==
    (Answered("inquiries", "GET") /\ resp.status = 200)
        => \A k \in 1..Len(resp.rows) :
               \/ resp.rows[k].sender = resp.userId
               \/ OwnerOf(properties, resp.rows[k].property) = resp.userId

C4_Witness ==
    /\ Answered("inquiries", "GET")
    /\ resp.status = 200
    /\ \E k \in 1..Len(resp.rows) : resp.rows[k].sender # resp.userId

\* C5 as stated: a POST of /api/inquiries by the owner of the property it names is
\* answered 400 with the self-inquiry error.
C5_Original ==
    ( /\ Answered("inquiries", "POST")
      /\ resp.userId # null
      /\ OwnerOf(properties, resp.id) = resp.userId )
    => (resp.status = 400 /\ resp.error = SelfInquiry)

\* C5, amended: a POST of /api/inquiries by the owner of the property it names is
\* answered 400 and its step leaves both tables as they were; the error is the
\* self-inquiry error when the message is not empty, and the missing-fields error
\* when it is.
C5_SelfInquiryRejected ==
    [][ ( /\ Answers("inquiries", "POST")
          /\ resp'.userId # null
          /\ OwnerOf(properties, resp'.id) = resp'.userId )
        => ( /\ resp'.status = 400
             /\ TablesUnchanged
             /\ resp'.error = IF Falsy(Field(resp'.body, "message"))
                               THEN "Missing required fields"
                               ELSE SelfInquiry ) ]_vars

C5_Witness ==
    /\ Answered("inquiries", "POST")
    /\ resp.status = 400
    /\ resp.error = SelfInquiry
    /\ OwnerOf(properties, resp.id) = resp.userId

\* C6: a POST of either route without a resolvable token is answered 401 before the
\* handler has made any store call, and its step leaves both tables as they were.
C6_AnonymousCreateUnauthorized ==
    [][ (resp'.method = "POST" /\ resp'.userId = null)
        => (resp'.status = 401 /\ resp'.calls = 0 /\ TablesUnchanged) ]_vars

C6_Witness ==
    /\ Answered("properties", "POST")
    /\ resp.userId = null
    /\ resp.status = 401
    /\ "price" \in resp.body.has

\* C7: every answer to a request of a token-protected operation (POST, PUT, DELETE
\* of /api/properties; GET, POST, DELETE of /api/inquiries) that carries no
\* resolvable token is 401.
C7_NoTokenAlwaysUnauthorized ==
    ( /\ resp.userId = null
      /\ \/ resp.route = "properties" /\ resp.method \in {"POST", "PUT", "DELETE"}
         \/ resp.route = "inquiries" /\ resp.method \in {"GET", "POST", "DELETE"} )
    => resp.status = 401

\* C8: a stored property's owner is the user whose request inserted it, and the row
\* a POST of /api/properties answers with 201 has the caller as its owner, whatever
\* owner the body names.
C8_OwnerIsCreator ==
    /\ \A p \in properties : p.owner = p.createdBy
    /\ (Answered("properties", "POST") /\ resp.status = 201)
           => (Len(resp.rows) = 1 /\ resp.rows[1].owner = resp.userId)

C8_Witness ==
    /\ Answered("properties", "POST")
    /\ resp.status = 201
    /\ "owner" \in resp.body.has
    /\ resp.body.owner # resp.userId
    /\ resp.rows[1] \in properties

C9_Authorized(userId, i) ==
    userId = i.sender \/ userId = OwnerOf(properties, i.property)

\* C9: the answer to a DELETE of /api/inquiries by an authenticated user that names
\* a stored inquiry is 200, with exactly that row removed, when the user is its
\* sender or the owner of its property, and 403 with both tables as they were
\* otherwise; and an inquiry leaves the table while its property stays only by such
\* a 200.
C9_DeleteInquiryIffAuthorized ==
    [][ /\ \A i \in inquiries :
               (Answers("inquiries", "DELETE") /\ resp'.userId # null /\ resp'.id = i.id)
               => IF C9_Authorized(resp'.userId, i)
                  THEN /\ resp'.status = 200
                       /\ inquiries' = inquiries \ {i}
                       /\ properties' = properties
                  ELSE resp'.status = 403 /\ TablesUnchanged
        /\ \A i \in inquiries :
               (i \notin inquiries' /\ \E p \in properties' : p.id = i.property)
               => /\ Answers("inquiries", "DELETE")
                  /\ resp'.status = 200
                  /\ resp'.id = i.id
                  /\ C9_Authorized(resp'.userId, i) ]_vars

C9_Witness ==
    /\ Answered("inquiries", "DELETE")
    /\ resp.status = 403
    /\ \E i \in inquiries : i.id = resp.id /\ ~C9_Authorized(resp.userId, i)

\* C10: every stored inquiry references a stored property, and once a DELETE of
\* /api/properties is answered 200 the property it names is not stored.
C10_InquiriesReferenceStoredProperties ==
    /\ \A i \in inquiries : PropertyStored(i.property)
    /\ (Answered("properties", "DELETE") /\ resp.status = 200)
           => (~PropertyStored(resp.id) /\ \A i \in inquiries : i.property # resp.id)

\* An inquiry's insert, whose check found the property, is refused because the
\* property was deleted in between.
C10_Witness ==
    /\ Answered("inquiries", "POST")
    /\ resp.status = 500
    /\ resp.calls = 2
    /\ ~PropertyStored(resp.id)

\* The rows of a response, as a set.
RowsOf(rows) == {rows[k] : k \in 1..Len(rows)}

NewestFirst(rows) ==
    \A j, k \in 1..Len(rows) : j < k => rows[j].created_at >= rows[k].created_at

\* rows lists exactly the rows of set, each once, newest first.
Exactly(rows, set) ==
    RowsOf(rows) = set /\ Len(rows) = Cardinality(set) /\ NewestFirst(rows)

OwnedIds(userId) == {p.id : p \in {q \in properties : q.owner = userId}}

SentBy(userId) == {i \in inquiries : i.sender = userId}

\* C11: a GET of /api/inquiries with neither propertyId nor userId answers 200 with
\* exactly the stored inquiries the caller sent or that are on a property whose id
\* the handler read as owned by the caller, newest first; when the caller still owns
\* exactly those properties this is the union of the inquiries the caller sent and
\* the inquiries on the caller's properties, and when the handler read no owned id
\* it is exactly the inquiries the caller sent.
C11_ListForActorIsUnion ==
    [][ \A r \in inFlight :
            (r.op = "GET_RELATED" /\ inFlight' = inFlight \ {r} /\ Answers("inquiries", "GET"))
            => /\ resp'.status = 200
               /\ Exactly(resp'.rows,
                          {i \in inquiries : i.sender = r.userId \/ i.property \in r.propertyIds})
               /\ r.propertyIds = OwnedIds(r.userId)
                      => Exactly(resp'.rows,
                                 SentBy(r.userId) \cup
                                 {i \in inquiries : OwnerOf(properties, i.property) = r.userId})
               /\ r.propertyIds = {} => Exactly(resp'.rows, SentBy(r.userId)) ]_vars

\* The caller is answered an inquiry it sent together with one it received.
C11_Witness ==
    /\ Answered("inquiries", "GET")
    /\ resp.status = 200
    /\ resp.id = NoId
    /\ resp.calls = 2
    /\ \E j, k \in 1..Len(resp.rows) :
           /\ resp.rows[j].sender = resp.userId
           /\ OwnerOf(properties, resp.rows[j].property) # resp.userId
           /\ resp.rows[k].sender # resp.userId
           /\ OwnerOf(properties, resp.rows[k].property) = resp.userId

\* C12: a GET of /api/inquiries with a propertyId is answered 403, both tables as they
\* were, when the caller is authenticated and the stored property has another owner;
\* a 200 goes only to the property's owner and carries exactly the stored inquiries
\* on that property, newest first.
C12_ListForPropertyOwnerOnly ==
    [][ (Answers("inquiries", "GET") /\ resp'.userId # null /\ resp'.id # NoId)
        => /\ (\E p \in properties : p.id = resp'.id /\ p.owner # resp'.userId)
                  => (resp'.status = 403 /\ resp'.rows = <<>> /\ TablesUnchanged)
           /\ resp'.status = 200
                  => /\ OwnerOf(properties', resp'.id) \in {resp'.userId, null}
                     /\ Exactly(resp'.rows, {i \in inquiries' : i.property = resp'.id}) ]_vars

\* The owner is answered the two inquiries on the property, the newer first.
C12_Witness ==
    /\ Answered("inquiries", "GET")
    /\ resp.status = 200
    /\ resp.id # NoId
    /\ OwnerOf(properties, resp.id) = resp.userId
    /\ Len(resp.rows) = 2
    /\ resp.rows[1].created_at > resp.rows[2].created_at

\* C13: a GET of /api/inquiries with a userId and no propertyId by an authenticated
\* caller is answered 403 with no row when the userId is not the caller's, and 200
\* with exactly the stored inquiries the caller sent when it is.
C13_ListForUserSelfOnly ==
    (Answered("inquiries", "GET") /\ resp.userId # null /\ resp.id = NoId
        /\ ~Falsy(resp.queryUserId))
    => IF resp.queryUserId # resp.userId
       THEN resp.status = 403 /\ resp.rows = <<>>
       ELSE resp.status = 200 /\ Exactly(resp.rows, SentBy(resp.userId))

\* The caller sent an inquiry and is answered it, while another user's inquiry is
\* stored and not in the answer.
C13_Witness ==
    /\ Answered("inquiries", "GET")
    /\ resp.status = 200
    /\ resp.id = NoId
    /\ resp.queryUserId = resp.userId
    /\ Len(resp.rows) = 1
    /\ \E i \in inquiries : i.sender # resp.userId

\* C14: a POST of /api/inquiries by an authenticated caller, with a message, that
\* names a property that is not stored is answered 404 by the handler's lookup.
C14_MissingPropertyIs404 ==
    ( /\ Answered("inquiries", "POST")
      /\ resp.userId # null
      /\ resp.id # NoId
      /\ ~Falsy(Field(resp.body, "message"))
      /\ resp.calls = 1
      /\ ~PropertyStored(resp.id) )
    => resp.status = 404

\* C15: a PUT or DELETE of /api/properties by an authenticated caller whose lookup
\* finds no stored property of that id is answered with the store's error (500,
\* neither 403 nor 200), its step leaves both tables as they were, and the request
\* does not go on to its write.
C15_MissingPropertyFails ==
    [][ /\ ( /\ resp'.route = "properties"
             /\ resp'.method \in {"PUT", "DELETE"}
             /\ resp'.userId # null
             /\ resp'.id # NoId
             /\ resp'.calls = 1
             /\ ~PropertyStored(resp'.id) )
           => (resp'.status = 500 /\ resp'.error = "StoreError" /\ TablesUnchanged)
        /\ \A r \in inFlight' \ inFlight :
               r.op \in {"PUT_PROPERTY", "DELETE_PROPERTY"} => PropertyStored(r.id) ]_vars

\* A PUT names an id that is not stored while another property is.
C15_Witness ==
    /\ Answered("properties", "PUT")
    /\ resp.userId # null
    /\ resp.status = 500
    /\ resp.calls = 1
    /\ ~PropertyStored(resp.id)
    /\ properties # {}

\* C16: a POST of /api/properties by an authenticated caller is answered 400, both
\* tables as they were, when the body has no title, no city or no price, and
\* otherwise 201 with the row stored as the body gives it; a price of zero is a
\* price.
C16_CreateValidatesRequiredFields ==
    [][ (Answers("properties", "POST") /\ resp'.userId # null)
        => IF \/ Falsy(Field(resp'.body, "title"))
              \/ Falsy(Field(resp'.body, "city"))
              \/ "price" \notin resp'.body.has
           THEN /\ resp'.status = 400
                /\ resp'.error = "Missing required fields"
                /\ TablesUnchanged
           ELSE /\ resp'.status = 201
                /\ Len(resp'.rows) = 1
                /\ resp'.rows[1].title = resp'.body.title
                /\ resp'.rows[1].city = resp'.body.city
                /\ resp'.rows[1].price = resp'.body.price
                /\ resp'.rows[1] \notin properties
                /\ properties' = properties \cup {resp'.rows[1]} ]_vars

\* A body with a price of zero is accepted and stored.
C16_Witness ==
    /\ Answered("properties", "POST")
    /\ resp.status = 201
    /\ resp.body.price = Num(0)
    /\ \E p \in properties : p.id = resp.rows[1].id /\ p.price = Num(0)

\* C17: the price of every stored property is a number, and not a negative one.
C17_PriceNonNegative ==
    \A p \in properties : Len(p.price) = 1 /\ p.price[1] >= 0

\* C20: a PUT of /api/properties answered 200 on a stored property writes the title,
\* city, price and image_url the body has, keeps the stored value of each of them
\* the body leaves out, keeps every other column, leaves every other row as it was,
\* and answers with the row as updated.
C20_UpdateAppliesOnlySuppliedFields ==
    [][ (Answers("properties", "PUT") /\ resp'.status = 200)
        => \A p \in properties :
               IF p.id # resp'.id THEN p \in properties'
               ELSE \E q \in properties' :
                        /\ resp'.rows = <<q>>
                        /\ \A f \in {"title", "city", "price", "image_url"} :
                               q[f] = IF f \in resp'.body.has THEN resp'.body[f] ELSE p[f]
                        /\ q.id = p.id
                        /\ q.owner = p.owner
                        /\ q.created_at = p.created_at ]_vars

\* A body with a title alone changes the title of a row whose price is zero.
C20_Witness ==
    /\ Answered("properties", "PUT")
    /\ resp.status = 200
    /\ resp.body.has = {"title", "owner"}
    /\ Len(resp.rows) = 1
    /\ resp.rows[1].title = "House"
    /\ resp.rows[1].city = "Yerevan"
    /\ resp.rows[1].price = Num(0)
    /\ resp.rows[1] \in properties

\* C18: a GET of /api/properties with neither id nor ownerId answers 200 with at most
\* 20 rows, all of them when no more than 20 are stored, each once, newest first, and
\* no stored property left out is newer than one returned.
C18_ListReturnsNewestTwenty ==
    (Answered("properties", "GET") /\ resp.id = NoId /\ Falsy(resp.queryUserId))
    => /\ resp.status = 200
       /\ Len(resp.rows) <= 20
       /\ Len(resp.rows) = (IF Cardinality(properties) < 20 THEN Cardinality(properties) ELSE 20)
       /\ RowsOf(resp.rows) \subseteq properties
       /\ Cardinality(RowsOf(resp.rows)) = Len(resp.rows)
       /\ NewestFirst(resp.rows)
       /\ \A p \in properties \ RowsOf(resp.rows) : \A q \in RowsOf(resp.rows) :
              p.created_at <= q.created_at

\* More than 20 properties are stored and 20 are returned.
C18_Witness ==
    /\ Answered("properties", "GET")
    /\ resp.id = NoId
    /\ Falsy(resp.queryUserId)
    /\ Cardinality(properties) > 20
    /\ Len(resp.rows) = 20

\* C19: a GET of /api/properties with an ownerId and no id answers 200 with properties
\* of that owner only, and no more than 20 of them.
C19_OwnerListCapped ==
    (Answered("properties", "GET") /\ resp.id = NoId /\ ~Falsy(resp.queryUserId))
    => /\ resp.status = 200
       /\ \A k \in 1..Len(resp.rows) : resp.rows[k].owner = resp.queryUserId
       /\ Len(resp.rows) <= 20

Failures == {400, 401, 403, 404, 405}

\* C21: a step that answers an API request with 400, 401, 403, 404 or 405 leaves both
\* tables as they were, and it is the request's only step: the request made no store
\* call that wrote before it.
C21_FailuresChangeNothing ==
    [][ (resp' # resp /\ resp'.status \in Failures)
        => (TablesUnchanged /\ inFlight' = inFlight /\ resp'.calls <= 1) ]_vars

\* An unsupported method is answered 405 while both tables hold rows.
C21_Witness ==
    /\ resp.status = 405
    /\ resp.route = "inquiries"
    /\ properties # {}
    /\ inquiries # {}

\* C23 as stated: a POST of /api/inquiries by an authenticated caller with an empty
\* message that names a property that is not stored is not answered with the
\* missing-fields error.
C23_Original ==
    ( /\ Answered("inquiries", "POST")
      /\ resp.userId # null
      /\ resp.id # NoId
      /\ resp.calls <= 1
      /\ ~PropertyStored(resp.id)
      /\ Falsy(Field(resp.body, "message")) )
    => resp.error # "Missing required fields"

\* C23, amended: the first step of a POST of /api/inquiries answers 401 without a
\* resolvable token; else 400 missing fields when the body has no property or an
\* empty message; else the store's error when no stored property has the id; else
\* 400 self-inquiry when the caller owns the property; and the request goes on to
\* its insert only when none of these holds.
C23_CreateFailureOrder ==
    [][ /\ (Answers("inquiries", "POST") /\ resp'.calls <= 1)
           => IF resp'.userId = null
              THEN resp'.status = 401 /\ resp'.calls = 0
              ELSE IF "property" \notin resp'.body.has \/ resp'.body.property = NoId
                      \/ Falsy(Field(resp'.body, "message"))
              THEN resp'.status = 400 /\ resp'.error = "Missing required fields"
                   /\ resp'.calls = 0
              ELSE IF ~PropertyStored(resp'.id)
              THEN resp'.status = 500 /\ resp'.error = "StoreError"
              ELSE /\ resp'.status = 400
                   /\ resp'.error = SelfInquiry
                   /\ OwnerOf(properties, resp'.id) = resp'.userId
        /\ \A r \in inFlight' \ inFlight :
               r.op = "POST_INQUIRY"
               => /\ r.userId # null
                  /\ ~Falsy(Field(r.body, "message"))
                  /\ PropertyStored(r.id)
                  /\ OwnerOf(properties, r.id) # r.userId ]_vars

\* An empty message to a property that is not stored is answered missing fields.
C23_Witness ==
    /\ Answered("inquiries", "POST")
    /\ resp.userId # null
    /\ resp.id # NoId
    /\ ~PropertyStored(resp.id)
    /\ Falsy(Field(resp.body, "message"))
    /\ resp.status = 400
    /\ resp.error = "Missing required fields"

\* C26: with a propertyId, the first step of a GET of /api/inquiries that arrives in
\* any reachable state is the same whatever userId the query carries; the answer of that step to an authenticated
\* caller is 403 when the stored property has another owner and the store's error
\* when no stored property has the id.
C26_PropertyIdTakesPrecedence ==
    /\ Idle => \A u \in Users \cup {null}, pid \in PropertyIds, q \in Users :
                   InquiriesGetCheck(u, pid, q) = InquiriesGetCheck(u, pid, undefined)
    /\ ( /\ Answered("inquiries", "GET")
         /\ resp.userId # null
         /\ resp.id # NoId
         /\ resp.calls = 1 )
       => IF PropertyStored(resp.id)
          THEN resp.status = 403 /\ OwnerOf(properties, resp.id) # resp.userId
          ELSE resp.status = 500

\* The caller asks for its own userId and a property of another owner: 403.
C26_Witness ==
    /\ Answered("inquiries", "GET")
    /\ resp.id # NoId
    /\ resp.userId # null
    /\ resp.queryUserId = resp.userId
    /\ resp.status = 403

\* C22: no GET of /api/properties is answered 401 or 403, with or without a token,
\* and a GET that names a stored property by id is answered 200 with that row.
C22_PropertyReadsArePublic ==
    Answered("properties", "GET")
    => /\ resp.status \notin {401, 403}
       /\ (resp.id # NoId /\ PropertyStored(resp.id))
              => /\ resp.status = 200
                 /\ Len(resp.rows) = 1
                 /\ resp.rows[1] \in properties
                 /\ resp.rows[1].id = resp.id

\* A caller without a token reads a stored property by its id.
C22_Witness ==
    /\ Answered("properties", "GET")
    /\ resp.userId = null
    /\ resp.id # NoId
    /\ resp.status = 200
    /\ resp.rows[1].id = resp.id

\* C24: whichever way the store calls of the requests interleave, a step that changes
\* or removes a stored property is the write of a PUT or DELETE of that property by
\* the user who owns it at that step, and a step that removes a stored inquiry is
\* the write of a DELETE of that inquiry by its sender or the owner of its property,
\* or the write of a DELETE of its property by the property's owner.
C24_WritesOnlyByEntitledActors ==
    [][ /\ \A p \in properties :
               p \notin properties'
               => \E r \in inFlight \ inFlight' :
                      /\ r.op \in {"PUT_PROPERTY", "DELETE_PROPERTY"}
                      /\ r.id = p.id
                      /\ r.userId = p.owner
        /\ \A i \in inquiries :
               i \notin inquiries'
               => \E r \in inFlight \ inFlight' :
                      \/ /\ r.op = "DELETE_INQUIRY"
                         /\ r.id = i.id
                         /\ C9_Authorized(r.userId, i)
                      \/ /\ r.op = "DELETE_PROPERTY"
                         /\ r.id = i.property
                         /\ r.userId = OwnerOf(properties, i.property) ]_vars

\* A DELETE of a property has taken effect while a PUT of the same property is
\* between its ownership check and its update.
C24_Witness ==
    /\ Answered("properties", "DELETE")
    /\ resp.status = 200
    /\ \E r \in inFlight : r.op = "PUT_PROPERTY" /\ r.id = resp.id

\* C25: a PUT of /api/properties answered 200 carries exactly one row, the row of the
\* property it names, with the values the body supplies.
C25_PutAnswersUpdatedRow ==
    (Answered("properties", "PUT") /\ resp.status = 200)
    => /\ Len(resp.rows) = 1
       /\ resp.rows[1].id = resp.id
       /\ \A f \in {"title", "city", "price", "image_url"} :
              f \in resp.body.has => resp.rows[1][f] = resp.body[f]

\* C27: in every state of the dashboard reached by editing, cancelling, submitting
\* (with or without success) and deleting, isEditing is true exactly when
\* currentPropertyId is not null.
C27_EditingIffCurrentProperty ==
    dashboard.isEditing <=> dashboard.currentPropertyId # NoId

\* A submit in edit mode has failed and the dashboard is still in edit mode.
C27_Witness ==
    /\ dashboard.isEditing
    /\ dashboard.formError = "Failed to save property"
    /\ dashboard.calls = {}

\* C28: while the dashboard is in edit mode, currentPropertyId is the id of a stored
\* property.
C28_EditedPropertyStored ==
    dashboard.isEditing => PropertyStored(dashboard.currentPropertyId)

\* C29: the listing page's success flag and a non-null error are never set together.
C29_SuccessExcludesError ==
    ~(listing.success /\ listing.error # null)

\* C30: every submission of the listing page's form ends with submitting false; and
\* the step that finds no user logged in inserts no inquiry, leaves for /register
\* and clears submitting.
C30_SubmissionEnds ==
    /\ listing.submitting ~> ~listing.submitting
    /\ [][ (listing.await = "getUser" /\ listing'.await = "")
           => /\ inquiries' = inquiries
              /\ listing'.route = "/register"
              /\ ~listing'.submitting ]_vars
    /\ [][ (listing.await = "insert" /\ listing'.await = "") => ~listing'.submitting ]_vars

\* A submission without a user logged in has ended: the page has left for /register.
C30_Witness ==
    /\ ~listing.submitting
    /\ listing.route = "/register"
    /\ listing.error = "You must be logged in to send an inquiry"
    /\ listing.await = ""

====
